---- MODULE Spec2Model ----
(***************************************************************************)
(* ClassPing reminders: the foreground poller and alert dispatcher         *)
(* (src/lib/reminders.ts), the reminder store (lib/db), the service worker *)
(* alarm loop (sw-custom.js) and the reminder time calculator.             *)
(*                                                                         *)
(* Time is Date.now() in milliseconds, counted from the moment the page    *)
(* is constructed.  The clock is sampled every Step ms; timers are ideal   *)
(* (a callback runs at its deadline), storage and notification calls       *)
(* settle within the instant they were issued in, and only a speech        *)
(* utterance spans time (up to its 15 s timeout).  Steps of different      *)
(* asynchronous tasks interleave freely inside one instant.                *)
(***************************************************************************)
EXTENDS Integers, Sequences, FiniteSets, TLC

\* ------------------------------------------------------------------ bounds
\* Sampling period of the clock: divides every duration of the program.
Step == 5 * 1000
\* Horizon of the poller specification (Spec).
MaxTime == 35000
\* Horizons of the escalation specifications (SpecAlarm, SpecLong).
MaxAlarmTime == 335000
MaxLongTime == 625000
\* checkReminders invocations in flight at once.
MaxInFlight == 2
\* Snooze timeouts pending at once.
MaxSnooze == 1
\* Horizon of SpecFault: past the query window of a reminder due at 0.
MaxFaultTime == 65000
\* Store operations (delete, save, import) the user starts in one behaviour.
MaxOps == 1
\* playAlarm calls followed, and the horizon they are followed to.
MaxAlarms == 2
MaxSpeechTime == 30000

\* --------------------------------------------------------- program constants
checkWindow == 60000
GRACE_PERIOD == 5 * 60 * 1000
MAX_ALARM_DURATION == 5 * 60 * 1000
DEFAULT_RETRIGGER_SECONDS == 15
ALARM_RE_TRIGGER_INTERVAL == 15000
REMINDER_CHECK_MS == 30000
SNOOZE_DELAY == 5 * 60 * 1000
SPEECH_TIMEOUT == 15000

\* ---------------------------------------------------------------- identities
\* Reminder and event keys; NoId is JavaScript's undefined.
Rid(n) == <<"reminder", n>>
Eid(n) == <<"event", n>>
NoId == <<"undefined", 0>>
ReminderIds == {Rid(n) : n \in 1..8}
EventIds == {Eid(1), Eid(2)}
\* snoozeId = `snooze-${Date.now()}`
SnoozeId(now) == <<"snooze", now>>

\* A ClassEvent: the fields the reminders depend on (Sunday 00:10 by default).
ClassEvent(voice, mins) ==
  [voiceReminderEnabled |-> voice, dayOfWeek |-> 0, startTime |-> <<0, 10>>,
   reminderMinutes |-> mins]

NoRem == [id |-> NoId, eventId |-> NoId, scheduledTime |-> 0, minutesBefore |-> 0,
          triggered |-> FALSE, missed |-> FALSE]
NoCalc == [phase |-> "off"]
\* indexedDB.open('ClassPingDB', 1) without an upgrade handler: a database
\* with no object stores, which is what the page's code leaves there.
NoStores == [stores |-> FALSE, reminders |-> <<>>, events |-> <<>>]
\* No store operation of the page is in flight; nextE and nextR stand for
\* generateId(): the next fresh event and reminder keys.
IdleUi == [pc |-> "idle", op |-> "none", id |-> NoId, snap |-> <<>>, todo |-> <<>>,
           made |-> {}, base |-> 0, nextE |-> 3, nextR |-> 3, ops |-> 0]
\* No playAlarm call yet; speech synthesis and Web Audio present.
NoSpeech == [supported |-> TRUE, audio |-> TRUE, attempts |-> <<>>]
NoSettings == [alarmRetriggerInterval |-> 0, notificationsEnabled |-> FALSE,
               voiceRemindersEnabled |-> FALSE]

VARIABLES
  clock,                  \* Date.now()
  events,                 \* store 'events': id -> ClassEvent
  reminders,              \* store 'reminders': id -> Reminder
  settings,               \* store 'settings', record 'app-settings'
  controller,             \* navigator.serviceWorker.controller is set
  mounted,                \* useReminderChecker's effect has run
  nextPollAt,             \* deadline of the poller's setInterval
  polls,                  \* checkReminders invocations in flight: frames
  ALARM_REPEAT_INTERVAL,  \* module variable of reminders.ts
  activeAlarms,           \* foreground Map reminderId -> interval handle
  fgTimers,               \* live foreground intervals: handle -> timer
  fgSpeaking,             \* interval callbacks awaiting their utterance
  timerSeq,               \* interval handles handed out so far
  swListening,            \* the page listens for REMINDER_ACKNOWLEDGED
  unacknowledgedReminders,\* worker Map reminderId -> interval handle
  swTimers,               \* live worker intervals: handle -> timer
  snoozes,                \* worker setTimeout(5 min) pending; of and alarming
                          \* record the click (history)
  notifications,          \* notifications on display
  msgs,                   \* worker -> page messages in flight; of, action
                          \* and alarming record the click (history)
  dispatchCount,          \* calls of triggerReminder per reminder (history)
  acked,                  \* sessions acknowledged while active (history)
  timeouts,               \* intervals that ran into the 5 min ceiling (history)
  calc,                   \* calculateReminderTime: inputs and result
  ui,                     \* the page's store operation in flight (a frame)
  swDb,                   \* the worker's database 'ClassPingDB'
  swPolls,                \* worker checkReminders invocations in flight
  swGiven,                \* reminders the worker's loop is done with (history)
  swRejected,             \* a worker checkReminders call has rejected (history)
  speech                  \* playAlarm calls and their utterances: frames

swStore == <<swDb, swPolls, swGiven, swRejected>>

vars == <<clock, events, reminders, settings, controller, mounted, nextPollAt,
          polls, ALARM_REPEAT_INTERVAL, activeAlarms, fgTimers,
          fgSpeaking, timerSeq, swListening, unacknowledgedReminders,
          swTimers, snoozes, notifications, msgs, dispatchCount,
          acked, timeouts, calc, speech, ui,
          swStore>>

storeVars == <<events, settings, controller>>
pollVars == <<mounted, nextPollAt>>
swVars == <<unacknowledgedReminders, swTimers, snoozes>>

\* ------------------------------------------------------------ small helpers
Remove(f, k) == [x \in DOMAIN f \ {k} |-> f[x]]
Put(f, k, v) == [x \in DOMAIN f \cup {k} |-> IF x = k THEN v ELSE f[x]]

\* ------------------------------------------------------------------- lib/db
\* Order of the 'by-scheduled' index: by scheduledTime, then by primary key.
Before(a, b) ==
  \/ a.scheduledTime < b.scheduledTime
  \/ a.scheduledTime = b.scheduledTime /\ a.id[2] < b.id[2]

RECURSIVE ByScheduled(_)
ByScheduled(S) ==
  IF S = {} THEN <<>>
  ELSE LET first == CHOOSE a \in S : \A b \in S \ {a} : Before(a, b)
       IN <<first>> \o ByScheduled(S \ {first})

\* getUpcomingReminders(fromTime, toTime)
getUpcomingReminders(fromTime, toTime) ==
  LET allReminders == {reminders[k] : k \in DOMAIN reminders}
  IN ByScheduled({r \in allReminders :
        ~r.triggered /\ r.scheduledTime >= fromTime /\ r.scheduledTime <= toTime})

\* A variant of the put below that leaves a missed reminder untriggered.
MarkedUnlessMissed(rec, missed) == [rec EXCEPT !.triggered = ~missed, !.missed = missed]
\* A variant of the put below that records `missed` only.
MarkedMissedOnly(rec, missed) == [rec EXCEPT !.missed = missed]
\* The record markReminderTriggered puts back: { ...reminder, triggered: true, missed }
Marked(rec, missed) == [rec EXCEPT !.triggered = TRUE, !.missed = missed]

\* settings.alarmRetriggerInterval || 15, in ms
RetriggerMs(s) ==
  (IF s.alarmRetriggerInterval = 0 THEN DEFAULT_RETRIGGER_SECONDS
   ELSE s.alarmRetriggerInterval) * 1000

\* ------------------------------------------------------------ notifications
\* showPersistentNotification(title, body, reminder.id): through the worker's
\* registration when the page is controlled (tag = reminder.id, data = {tag,
\* timestamp}, the two actions), else a plain Notification without actions.
FgNotification(id) ==
  [origin |-> "page", tag |-> id, reminderId |-> NoId, actions |-> controller]
\* showAlarmNotification: tag = `reminder-${reminderId}`, data.reminderId set.
SwNotification(id) ==
  [origin |-> "worker", tag |-> id, reminderId |-> id, actions |-> TRUE]
\* A variant of the rendering below that puts nothing on display.
ShowNothing(ns, n) == ns
\* A notification replaces the one on display with the same tag.
Show(ns, n) == {m \in ns : ~(m.origin = n.origin /\ m.tag = n.tag)} \cup {n}

\* --------------------------------------------------- foreground: the poller
IdlePoll == [pc |-> "idle", now |-> 0, batch |-> <<>>, cur |-> NoRem,
             settings |-> NoSettings, voice |-> FALSE, missed |-> FALSE,
             rec |-> NoRem, speechStart |-> 0]

\* A variant of the test below without the grace period.
isMissedAtOnce(now, r) == now - r.scheduledTime >= 0
\* now - reminder.scheduledTime > 5 * 60 * 1000
isMissed(now, r) == now - r.scheduledTime > GRACE_PERIOD

RECURSIVE ScanAll(_, _)
\* A variant of the loop below without the scheduledTime <= now test.
ScanAll(p, rest) ==
  IF rest = <<>> THEN IdlePoll
  ELSE LET r == Head(rest) IN
       IF ~r.triggered
       THEN [p EXCEPT !.batch = Tail(rest), !.cur = r, !.rec = NoRem,
                      !.missed = isMissed(p.now, r),
                      !.pc = IF isMissed(p.now, r) THEN "markGet"
                             ELSE "getSettings"]
       ELSE ScanAll(p, Tail(rest))

RECURSIVE Scan(_, _)
\* The for loop of checkReminders over what is left of dueReminders: entries
\* failing the test of line 227 are skipped, the first one passing it is
\* either marked missed or handed to triggerReminder; at the end of the batch
\* the invocation returns.
Scan(p, rest) ==
  IF rest = <<>> THEN IdlePoll
  ELSE LET r == Head(rest) IN
       IF r.scheduledTime <= p.now /\ ~r.triggered
       THEN [p EXCEPT !.batch = Tail(rest), !.cur = r, !.rec = NoRem,
                      !.missed = isMissed(p.now, r),
                      !.pc = IF isMissed(p.now, r) THEN "markGet"
                             ELSE "getSettings"]
       ELSE Scan(p, Tail(rest))

\* triggerReminder(reminder) is entered when the loop stops on a due reminder.
Counted(d, p) ==
  IF p.pc = "getSettings" THEN [d EXCEPT ![p.cur.id] = @ + 1] ELSE d

\* The frames with the i-th replaced by q; a frame that returned is dropped.
SetFrame(i, q) ==
  IF q.pc = "idle"
  THEN SubSeq(polls, 1, i - 1) \o SubSeq(polls, i + 1, Len(polls))
  ELSE [polls EXCEPT ![i] = q]

Slots == DOMAIN polls

\* runCheck(): const now = Date.now(); await getUpcomingReminders(...)
StartPoll ==
  /\ Len(polls) < MaxInFlight
  /\ polls' = Append(polls, [IdlePoll EXCEPT !.pc = "query", !.now = clock])

restVars == <<ALARM_REPEAT_INTERVAL, activeAlarms, fgTimers, fgSpeaking,
              timerSeq, swListening, unacknowledgedReminders, swTimers,
              snoozes, notifications, msgs, acked, timeouts, calc, speech, ui,
          swStore>>

\* useEffect of useReminderChecker: the initial check and setInterval.
Mount ==
  /\ ~mounted
  /\ mounted' = TRUE
  /\ StartPoll
  /\ nextPollAt' = clock + REMINDER_CHECK_MS
  /\ UNCHANGED <<clock, reminders, storeVars, dispatchCount, restVars>>

\* setInterval(runCheck, intervalMs)
IntervalTick ==
  /\ mounted /\ nextPollAt = clock
  /\ nextPollAt' = nextPollAt + REMINDER_CHECK_MS
  /\ IF Len(polls) < MaxInFlight THEN StartPoll ELSE UNCHANGED polls
  /\ UNCHANGED <<clock, reminders, storeVars, mounted, dispatchCount, restVars>>

\* handleVisibilityChange with document.visibilityState === 'visible'
VisibilityChange ==
  /\ mounted
  /\ StartPoll
  /\ UNCHANGED <<clock, reminders, storeVars, pollVars, dispatchCount, restVars>>

\* getUpcomingReminders(now - checkWindow, now + checkWindow) settles.
QueryDone(i) ==
  /\ polls[i].pc = "query"
  /\ LET p == polls[i]
         q == Scan(p, getUpcomingReminders(p.now - checkWindow, p.now + checkWindow))
     IN /\ polls' = SetFrame(i, q)
        /\ dispatchCount' = Counted(dispatchCount, q)
  /\ UNCHANGED <<clock, reminders, storeVars, pollVars, restVars>>

\* ----------------------------------------- foreground: the alert dispatcher
\* acknowledgeReminder(reminderId): clearInterval of the handle in the map ...
AckTimers(tm, al, id) == IF id \in DOMAIN al THEN Remove(tm, al[id]) ELSE tm
\* A variant of the delete below that leaves the map entry in place.
AckAlarmsKept(al, id) == al
\* ... and activeAlarms.delete(reminderId)
AckAlarms(al, id) == IF id \in DOMAIN al THEN Remove(al, id) ELSE al
\* History: the acknowledgment found an active session.
AckNoted(a, al, id) == IF id \in DOMAIN al THEN a \cup {<<"page", id>>} ELSE a

\* Lines 195-216 of triggerReminder: alarmStartTime, setInterval at the
\* current ALARM_REPEAT_INTERVAL, activeAlarms.set, markReminderTriggered(id).
NewTimer(p) ==
  [rid |-> p.cur.id, start |-> clock, interval |-> ALARM_REPEAT_INTERVAL,
   next |-> clock + ALARM_REPEAT_INTERVAL, renders |-> 0,
   notify |-> p.settings.notificationsEnabled,
   speak |-> p.settings.voiceRemindersEnabled /\ p.voice]

Arm(i, p) ==
  /\ timerSeq' = timerSeq + 1
  /\ fgTimers' = Put(fgTimers, timerSeq + 1, NewTimer(p))
  /\ activeAlarms' = Put(activeAlarms, p.cur.id, timerSeq + 1)
  /\ polls' = [polls EXCEPT ![i] = [p EXCEPT !.pc = "markGet", !.missed = FALSE]]

\* What follows `await playAlarm()`: the persistent notification when
\* notifications are enabled, else straight on to the interval.
AfterAlarm(i, p) ==
  IF p.settings.notificationsEnabled
  THEN /\ notifications' = Show(notifications, FgNotification(p.cur.id))
       /\ polls' = [polls EXCEPT ![i] = [p EXCEPT !.pc = "shown"]]
       /\ UNCHANGED <<timerSeq, fgTimers, activeAlarms>>
  ELSE /\ Arm(i, p)
       /\ UNCHANGED notifications

dispatchFrame == <<clock, storeVars, pollVars, fgSpeaking, swListening, swVars,
                   msgs, dispatchCount, acked, timeouts, calc, speech, ui,
          swStore>>

\* const settings = await getSettings(); ALARM_REPEAT_INTERVAL = ...
GetSettings(i) ==
  /\ polls[i].pc = "getSettings"
  /\ polls' = [polls EXCEPT ![i] = [@ EXCEPT !.settings = settings, !.pc = "getEvent"]]
  /\ ALARM_REPEAT_INTERVAL' = RetriggerMs(settings)
  /\ UNCHANGED <<reminders, activeAlarms, fgTimers, timerSeq, notifications,
                 dispatchFrame>>

\* const event = await getEvent(reminder.eventId); a missing event ends the
\* dispatch with markReminderTriggered(id, true); else playAlarm() starts.
GetEvent(i) ==
  /\ polls[i].pc = "getEvent"
  /\ LET p == polls[i] IN
     IF p.cur.eventId \notin DOMAIN events
     THEN /\ polls' = [polls EXCEPT ![i] = [p EXCEPT !.pc = "markGet", !.missed = TRUE]]
          /\ UNCHANGED <<activeAlarms, fgTimers, timerSeq, notifications>>
     ELSE LET q == [p EXCEPT !.voice = events[p.cur.eventId].voiceReminderEnabled] IN
          IF q.settings.voiceRemindersEnabled /\ q.voice
          THEN /\ polls' = [polls EXCEPT ![i] = [q EXCEPT !.pc = "speaking",
                                                         !.speechStart = clock]]
               /\ UNCHANGED <<activeAlarms, fgTimers, timerSeq, notifications>>
          ELSE AfterAlarm(i, q)
  /\ UNCHANGED <<reminders, ALARM_REPEAT_INTERVAL, dispatchFrame>>

\* speakText settles: the utterance ended, or failed or timed out and the
\* fallback tone was played instead; playAlarm returns either way.
SpeechSettles(i) ==
  /\ polls[i].pc = "speaking"
  /\ AfterAlarm(i, polls[i])
  /\ UNCHANGED <<reminders, ALARM_REPEAT_INTERVAL, dispatchFrame>>

\* await showPersistentNotification(...) settles.
NotificationShown(i) ==
  /\ polls[i].pc = "shown"
  /\ Arm(i, polls[i])
  /\ UNCHANGED <<reminders, ALARM_REPEAT_INTERVAL, notifications, dispatchFrame>>

\* markReminderTriggered: const reminder = await db.get('reminders', id)
MarkGet(i) ==
  /\ polls[i].pc = "markGet"
  /\ LET id == polls[i].cur.id IN
     polls' = [polls EXCEPT ![i] = [@ EXCEPT !.pc = "markPut",
                 !.rec = IF id \in DOMAIN reminders THEN reminders[id] ELSE NoRem]]
  /\ UNCHANGED <<reminders, ALARM_REPEAT_INTERVAL, activeAlarms, fgTimers,
                 timerSeq, notifications, dispatchFrame>>

\* markReminderTriggered: if (reminder) await db.put(...); then the caller's
\* for loop goes on with the rest of its batch.
MarkPut(i) ==
  /\ polls[i].pc = "markPut"
  /\ LET p == polls[i]
         q == Scan(p, p.batch)
     IN /\ reminders' = IF p.rec = NoRem THEN reminders
                        ELSE Put(reminders, p.rec.id, Marked(p.rec, p.missed))
        /\ polls' = SetFrame(i, q)
        /\ dispatchCount' = Counted(dispatchCount, q)
  /\ UNCHANGED <<clock, storeVars, pollVars, restVars>>

\* -------------------------------------- foreground: the escalation interval
\* A variant of the ceiling test below with >= for >.
CeilingReached(now, start) == now - start >= MAX_ALARM_DURATION
\* Date.now() - alarmStartTime > MAX_ALARM_DURATION
CeilingPassed(now, start) == now - start > MAX_ALARM_DURATION

timerFrame == <<clock, reminders, storeVars, pollVars, polls,
                ALARM_REPEAT_INTERVAL, timerSeq, swListening, swVars, msgs,
                dispatchCount, calc, speech, ui,
          swStore>>

\* The callback of triggerReminder's setInterval, at its deadline.
FgTimerFire(h) ==
  /\ h \in DOMAIN fgTimers
  /\ fgTimers[h].next = clock
  /\ LET t == fgTimers[h]
         again == [t EXCEPT !.next = @ + t.interval]
     IN IF t.rid \notin DOMAIN activeAlarms
        THEN /\ fgTimers' = [fgTimers EXCEPT ![h] = again]
             /\ UNCHANGED <<activeAlarms, acked, timeouts, fgSpeaking, notifications>>
        ELSE IF CeilingPassed(clock, t.start)
        THEN /\ fgTimers' = AckTimers([fgTimers EXCEPT ![h] = again], activeAlarms, t.rid)
             /\ activeAlarms' = AckAlarms(activeAlarms, t.rid)
             /\ acked' = AckNoted(acked, activeAlarms, t.rid)
             /\ timeouts' = timeouts \cup
                  {[handle |-> h, interval |-> t.interval, renders |-> t.renders]}
             /\ UNCHANGED <<fgSpeaking, notifications>>
        ELSE /\ fgTimers' = [fgTimers EXCEPT ![h] = [again EXCEPT !.renders = @ + 1]]
             /\ IF t.speak
                THEN /\ fgSpeaking' = fgSpeaking \cup
                          {[rid |-> t.rid, notify |-> t.notify, speechStart |-> clock]}
                     /\ UNCHANGED notifications
                ELSE /\ notifications' = IF t.notify
                                         THEN Show(notifications, FgNotification(t.rid))
                                         ELSE notifications
                     /\ UNCHANGED fgSpeaking
             /\ UNCHANGED <<activeAlarms, acked, timeouts>>
  /\ UNCHANGED timerFrame

\* The utterance of an interval callback settles; its notification follows.
TickSpeechSettles(s) ==
  /\ s \in fgSpeaking
  /\ fgSpeaking' = fgSpeaking \ {s}
  /\ notifications' = IF s.notify THEN Show(notifications, FgNotification(s.rid))
                      ELSE notifications
  /\ UNCHANGED <<activeAlarms, fgTimers, acked, timeouts, timerFrame>>

\* registerServiceWorker: after navigator.serviceWorker.ready the page
\* listens for the worker's messages.
RegisterServiceWorker ==
  /\ mounted /\ ~swListening
  /\ swListening' = TRUE
  /\ UNCHANGED <<clock, reminders, storeVars, pollVars, polls,
                 ALARM_REPEAT_INTERVAL, activeAlarms, fgTimers, fgSpeaking,
                 timerSeq, swVars, notifications, msgs, dispatchCount, acked,
                 timeouts, calc, speech, ui,
          swStore>>

\* The page's 'message' listener: REMINDER_ACKNOWLEDGED -> acknowledgeReminder.
DeliverAck ==
  /\ msgs # <<>>
  /\ msgs' = Tail(msgs)
  /\ IF swListening
     THEN /\ fgTimers' = AckTimers(fgTimers, activeAlarms, Head(msgs).reminderId)
          /\ activeAlarms' = AckAlarms(activeAlarms, Head(msgs).reminderId)
          /\ acked' = AckNoted(acked, activeAlarms, Head(msgs).reminderId)
     ELSE UNCHANGED <<fgTimers, activeAlarms, acked>>
  /\ UNCHANGED <<clock, reminders, storeVars, pollVars, polls,
                 ALARM_REPEAT_INTERVAL, fgSpeaking, timerSeq, swListening,
                 swVars, notifications, dispatchCount, timeouts, calc, speech, ui,
          swStore>>

\* ------------------------------------------------- worker: the alarm loop
\* startAlarmLoop(reminderId, ...): nothing when the id has a session; else
\* the notification, setInterval(15 s) and the map entry.  `start` is history.
startAlarmLoop(id) ==
  IF id \in DOMAIN unacknowledgedReminders
  THEN UNCHANGED <<notifications, swTimers, unacknowledgedReminders, timerSeq>>
  ELSE /\ notifications' = Show(notifications, SwNotification(id))
       /\ timerSeq' = timerSeq + 1
       /\ swTimers' = Put(swTimers, timerSeq + 1,
             [rid |-> id, start |-> clock, next |-> clock + ALARM_RE_TRIGGER_INTERVAL,
              renders |-> 0])
       /\ unacknowledgedReminders' = Put(unacknowledgedReminders, id, timerSeq + 1)

\* stopAlarmLoop(reminderId): clearInterval(entry.intervalId) ...
StopTimers(tm, un, id) == IF id \in DOMAIN un THEN Remove(tm, un[id]) ELSE tm
\* ... and unacknowledgedReminders.delete(reminderId)
StopLoops(un, id) == IF id \in DOMAIN un THEN Remove(un, id) ELSE un

\* The callback of startAlarmLoop's setInterval.
SwTimerFire(h) ==
  /\ h \in DOMAIN swTimers
  /\ swTimers[h].next = clock
  /\ LET t == swTimers[h] IN
     IF t.rid \notin DOMAIN unacknowledgedReminders
     THEN /\ swTimers' = Remove(swTimers, h)
          /\ UNCHANGED notifications
     ELSE /\ swTimers' = [swTimers EXCEPT ![h] =
                 [t EXCEPT !.next = @ + ALARM_RE_TRIGGER_INTERVAL, !.renders = @ + 1]]
          /\ notifications' = Show(notifications, SwNotification(t.rid))
  /\ UNCHANGED <<clock, reminders, storeVars, pollVars, polls,
                 ALARM_REPEAT_INTERVAL, activeAlarms, fgTimers, fgSpeaking,
                 timerSeq, swListening, unacknowledgedReminders, snoozes,
                 msgs, dispatchCount, acked, timeouts, calc, speech, ui,
          swStore>>

\* Is the reminder a notification stands for alarming in some context?
Alarming(id) == id \in DOMAIN activeAlarms \cup DOMAIN unacknowledgedReminders

\* The worker's 'notificationclick' handler, for a notification shown through
\* its registration: reminderId = event.notification.data.reminderId;
\* stopAlarmLoop(reminderId), which posts REMINDER_ACKNOWLEDGED to the page;
\* close; on 'snooze' a 5 min timeout that starts a loop of its own.  The user
\* answers one notification at a time (its message is delivered before the
\* next answer), two answers never share a millisecond, and a snooze whose
\* timeout lies beyond the horizon `limit` is not taken.
NotificationClick(n, action, limit) ==
  /\ n \in notifications /\ n.actions
  /\ msgs = <<>>
  /\ action = "snooze" =>
       /\ Cardinality(snoozes) < MaxSnooze
       /\ clock + SNOOZE_DELAY <= limit
       /\ \A s \in snoozes : s.due # clock + SNOOZE_DELAY
  /\ swTimers' = StopTimers(swTimers, unacknowledgedReminders, n.reminderId)
  /\ unacknowledgedReminders' = StopLoops(unacknowledgedReminders, n.reminderId)
  /\ msgs' = Append(msgs, [reminderId |-> n.reminderId, action |-> action,
                           of |-> n.tag, alarming |-> Alarming(n.tag)])
  /\ notifications' = notifications \ {n}
  /\ snoozes' = IF action = "snooze"
                THEN snoozes \cup {[due |-> clock + SNOOZE_DELAY, of |-> n.tag,
                                   alarming |-> Alarming(n.tag)]}
                ELSE snoozes
  /\ acked' = IF n.reminderId \in DOMAIN unacknowledgedReminders
              THEN acked \cup {<<"worker", n.reminderId>>} ELSE acked
  /\ UNCHANGED <<clock, reminders, storeVars, pollVars, polls,
                 ALARM_REPEAT_INTERVAL, activeAlarms, fgTimers, fgSpeaking,
                 timerSeq, swListening, dispatchCount, timeouts, calc, speech, ui,
          swStore>>

\* 'notificationclose' (the user swipes the notification away): no effect
\* on the worker's state.
NotificationClose(n) ==
  /\ n \in notifications /\ n.actions
  /\ notifications' = notifications \ {n}
  /\ UNCHANGED <<clock, reminders, storeVars, pollVars, polls,
                 ALARM_REPEAT_INTERVAL, activeAlarms, fgTimers, fgSpeaking,
                 timerSeq, swListening, swVars, msgs, dispatchCount, acked,
                 timeouts, calc, speech, ui,
          swStore>>

\* The snooze timeout expires: startAlarmLoop(`snooze-${Date.now()}`, ...).
SnoozeFire(s) ==
  /\ s \in snoozes
  /\ s.due = clock
  /\ snoozes' = snoozes \ {s}
  /\ startAlarmLoop(SnoozeId(clock))
  /\ UNCHANGED <<clock, reminders, storeVars, pollVars, polls,
                 ALARM_REPEAT_INTERVAL, activeAlarms, fgTimers, fgSpeaking,
                 swListening, msgs, dispatchCount, acked,
                 timeouts, calc, speech, ui,
          swStore>>

\* ------------------------------------------------------------------- time
\* Nothing is left to run at the current instant.
Quiet ==
  /\ mounted
  /\ swListening
  /\ nextPollAt > clock
  /\ msgs = <<>>
  /\ \A i \in Slots :
       polls[i].pc = "speaking" /\ clock < polls[i].speechStart + SPEECH_TIMEOUT
  /\ \A s \in fgSpeaking : clock < s.speechStart + SPEECH_TIMEOUT
  /\ \A h \in DOMAIN fgTimers : fgTimers[h].next > clock
  /\ \A h \in DOMAIN swTimers : swTimers[h].next > clock
  /\ \A s \in snoozes : s.due > clock

Advance(limit) ==
  /\ Quiet
  /\ clock + Step <= limit
  /\ clock' = clock + Step
  /\ UNCHANGED <<reminders, storeVars, pollVars, polls, restVars, dispatchCount>>

\* ------------------------------------------------------- specifications

Start(evs, rems, sets, ctrl) ==
  /\ clock = 0
  /\ events = evs
  /\ reminders = rems
  /\ settings = sets
  /\ controller = ctrl
  /\ mounted = FALSE
  /\ nextPollAt = 0
  /\ polls = <<>>
  /\ ALARM_REPEAT_INTERVAL = 15000
  /\ activeAlarms = <<>>
  /\ fgTimers = <<>>
  /\ fgSpeaking = {}
  /\ timerSeq = 0
  /\ swListening = FALSE
  /\ unacknowledgedReminders = <<>>
  /\ swTimers = <<>>
  /\ snoozes = {}
  /\ notifications = {}
  /\ msgs = <<>>
  /\ dispatchCount = [r \in ReminderIds |-> 0]
  /\ acked = {}
  /\ timeouts = {}
  /\ ui = IdleUi
  /\ swPolls = <<>>
  /\ swGiven = {}
  /\ swRejected = FALSE

Fresh(n, e, at) ==
  [id |-> Rid(n), eventId |-> Eid(e), scheduledTime |-> at, minutesBefore |-> 10,
   triggered |-> FALSE, missed |-> FALSE]

\* A store left by earlier sessions: reminder 1 is due now; reminder 2 is due
\* now, due at the next poll or was due while the page was closed; its event
\* may have gone.
Init ==
  \E at2 \in {0 - GRACE_PERIOD - Step, 0, REMINDER_CHECK_MS},
     has2 \in BOOLEAN, notify \in BOOLEAN, voice \in BOOLEAN, ctrl \in {TRUE},
     secs \in {0, 10} :
    /\ calc = NoCalc
    /\ speech = NoSpeech
    /\ swDb = NoStores
    /\ Start(IF has2 THEN (Eid(1) :> ClassEvent(TRUE, <<10>>)) @@
                       (Eid(2) :> ClassEvent(FALSE, <<10>>))
          ELSE (Eid(1) :> ClassEvent(TRUE, <<10>>)),
          (Rid(1) :> Fresh(1, 1, 0)) @@ (Rid(2) :> Fresh(2, 2, at2)),
          [alarmRetriggerInterval |-> secs, notificationsEnabled |-> notify,
           voiceRemindersEnabled |-> voice],
          ctrl)

\* The page: poller, dispatcher and escalation intervals.
PageSteps ==
  \/ Mount
  \/ RegisterServiceWorker
  \/ IntervalTick
  \/ VisibilityChange
  \/ \E i \in Slots :
       \/ QueryDone(i)
       \/ GetSettings(i)
       \/ GetEvent(i)
       \/ NotificationShown(i)
       \/ MarkGet(i)
       \/ MarkPut(i)
  \/ \E h \in DOMAIN fgTimers : FgTimerFire(h)

\* Utterances in progress settle (voice reminders enabled).
SpeechSteps ==
  \/ \E i \in Slots : SpeechSettles(i)
  \/ \E s \in fgSpeaking : TickSpeechSettles(s)

\* The worker, the user's answers to notifications and the messages back.
WorkerSteps(limit) ==
  \/ DeliverAck
  \/ \E h \in DOMAIN swTimers : SwTimerFire(h)
  \/ \E n \in notifications :
       \/ \E action \in {"ok", "snooze", "open"} : NotificationClick(n, action, limit)
       \/ NotificationClose(n)
  \/ \E s \in snoozes : SnoozeFire(s)

\* The poller and the dispatcher up to the second poll; nobody answers the
\* notifications.
Next == PageSteps \/ SpeechSteps \/ Advance(MaxTime)

Spec == Init /\ [][Next]_vars

\* One due reminder of an existing event, at each retrigger interval, voice
\* reminders off; the user answers the notifications.  SpecAlarm runs past the
\* ceiling of a session started at once, SpecLong past the ceiling of a
\* session started by a snooze.
InitAlarm ==
  \E secs \in {10, 15, 30} :
    /\ calc = NoCalc
    /\ speech = NoSpeech
    /\ swDb = NoStores
    /\ Start((Eid(1) :> ClassEvent(TRUE, <<10>>)),
          (Rid(1) :> Fresh(1, 1, 0)),
          [alarmRetriggerInterval |-> secs, notificationsEnabled |-> TRUE,
           voiceRemindersEnabled |-> FALSE],
          TRUE)

NextAlarm == PageSteps \/ WorkerSteps(MaxAlarmTime) \/ Advance(MaxAlarmTime)

SpecAlarm == InitAlarm /\ [][NextAlarm]_vars

NextLong == PageSteps \/ WorkerSteps(MaxLongTime) \/ Advance(MaxLongTime)

SpecLong == InitAlarm /\ [][NextLong]_vars

\* ------------------------------------------------- calculateReminderTime
\* Local wall-clock time in ms; instant 0 is a Sunday, 00:00:00.000.
DAY == 24 * 60 * 60 * 1000
\* Date.prototype.getDay()
getDay(t) == (t \div DAY) % 7
\* eventDate.setDate(eventDate.getDate() + n)
AddDays(t, n) == t + n * DAY
\* eventDate.setHours(hours, minutes, 0, 0)
SetHours(t, hours, minutes) == (t - (t % DAY)) + hours * 60 * 60 * 1000 + minutes * 60 * 1000

\* A variant of calculateReminderTime whose rollover test is eventDate < now.
calculateReminderTimeStrict(eventDayOfWeek, hours, minutes, minutesBefore, now) ==
  LET currentDay == getDay(now)
      diff == eventDayOfWeek - currentDay
      daysUntil == IF diff < 0 THEN diff + 7 ELSE diff
      eventDate == SetHours(AddDays(now, daysUntil), hours, minutes)
      rolled == IF daysUntil = 0 /\ eventDate < now THEN AddDays(eventDate, 7)
                ELSE eventDate
  IN rolled - (minutesBefore * 60 * 1000)

\* A variant of calculateReminderTime whose rollover test looks at the
\* reminder instant (eventDate - offset) instead of the event's start.
calculateReminderTimeByReminder(eventDayOfWeek, hours, minutes, minutesBefore, now) ==
  LET currentDay == getDay(now)
      diff == eventDayOfWeek - currentDay
      daysUntil == IF diff < 0 THEN diff + 7 ELSE diff
      eventDate == SetHours(AddDays(now, daysUntil), hours, minutes)
      rolled == IF daysUntil = 0 /\ eventDate - (minutesBefore * 60 * 1000) <= now
                THEN AddDays(eventDate, 7)
                ELSE eventDate
  IN rolled - (minutesBefore * 60 * 1000)

\* calculateReminderTime(eventDayOfWeek, "hours:minutes", minutesBefore) at `now`
calculateReminderTime(eventDayOfWeek, hours, minutes, minutesBefore, now) ==
  LET currentDay == getDay(now)
      diff == eventDayOfWeek - currentDay
      daysUntil == IF diff < 0 THEN diff + 7 ELSE diff
      eventDate == SetHours(AddDays(now, daysUntil), hours, minutes)
      rolled == IF daysUntil = 0 /\ eventDate <= now THEN AddDays(eventDate, 7)
                ELSE eventDate
  IN rolled - (minutesBefore * 60 * 1000)

\* A wall-clock instant of the first week.
At(day, hours, minutes, ms) == SetHours(AddDays(0, day), hours, minutes) + ms

CalcNows ==
  {At(d, t[1], t[2], t[3]) : d \in 0..6,
     t \in {<<0, 0, 0>>, <<8, 50, 0>>, <<8, 51, 0>>, <<9, 0, 0>>, <<9, 0, 1>>,
            <<23, 59, 59999>>}}
CalcStarts == {<<0, 0>>, <<9, 0>>, <<23, 59>>}
CalcOffsets == {0, 10, 30}

calcFrame == <<clock, events, reminders, settings, controller, mounted,
               nextPollAt, polls, ALARM_REPEAT_INTERVAL, activeAlarms, fgTimers,
               fgSpeaking, timerSeq, swListening, unacknowledgedReminders,
               swTimers, snoozes, notifications, msgs, dispatchCount, acked,
               timeouts, speech, ui, swStore>>

\* The form computes the reminder time of one offset of the event it saves.
Calculate ==
  /\ calc.phase = "in"
  /\ calc' = [calc EXCEPT !.phase = "out",
                !.result = calculateReminderTime(calc.dayOfWeek, calc.startTime[1],
                              calc.startTime[2], calc.minutesBefore, calc.now)]
  /\ UNCHANGED calcFrame

InitCalc ==
  /\ \E d \in 0..6, st \in CalcStarts, mb \in CalcOffsets, now \in CalcNows :
       calc = [phase |-> "in", dayOfWeek |-> d, startTime |-> st,
               minutesBefore |-> mb, now |-> now, result |-> 0]
  /\ Start(<<>>, <<>>, NoSettings, TRUE)
  /\ swDb = NoStores
  /\ speech = NoSpeech

NextCalc == Calculate

SpecCalc == InitCalc /\ [][NextCalc]_vars

\* ------------------------------------------- the page's store operations
\* deleteEvent, EventForm.handleSave and TimetableUpload.handleImportClasses:
\* one action per awaited storage request; the poller's frames run between.
uiFrame == <<clock, settings, controller, mounted, nextPollAt, polls,
             ALARM_REPEAT_INTERVAL, activeAlarms, fgTimers, fgSpeaking, timerSeq,
             swListening, unacknowledgedReminders, swTimers, snoozes,
             notifications, msgs, dispatchCount, acked, timeouts, calc, speech,
             swStore>>

\* db.getAllFromIndex('reminders', 'by-event', eventId)
getRemindersByEvent(eventId) ==
  ByScheduled({reminders[k] : k \in {x \in DOMAIN reminders : reminders[x].eventId = eventId}})

\* The user deletes event e: deleteEvent(e) is called.
DeleteEventCall(e) ==
  /\ ui.pc = "idle" /\ ui.ops < MaxOps /\ e \in DOMAIN events
  /\ ui' = [ui EXCEPT !.pc = "delGet", !.op = "deleteEvent", !.id = e, !.ops = @ + 1]
  /\ UNCHANGED <<events, reminders, uiFrame>>

\* const existing = await db.get('events', id); if (!existing) return false
DeleteEventGet ==
  /\ ui.pc = "delGet"
  /\ ui' = [ui EXCEPT !.pc = IF ui.id \in DOMAIN events THEN "delEvent" ELSE "failed"]
  /\ UNCHANGED <<events, reminders, uiFrame>>

\* await db.delete('events', id)
DeleteEventDelete ==
  /\ ui.pc = "delEvent"
  /\ events' = Remove(events, ui.id)
  /\ ui' = [ui EXCEPT !.pc = "snap"]
  /\ UNCHANGED <<reminders, uiFrame>>

\* After the loop of deletes deleteEvent returns true; handleSave goes on to
\* updateEvent.
AfterDeletes(op) == IF op = "deleteEvent" THEN "done" ELSE "updGet"

\* const reminders = await db.getAllFromIndex('reminders', 'by-event', id), in
\* deleteEvent and in deleteRemindersByEvent
RemindersSnapshot ==
  /\ ui.pc = "snap"
  /\ LET found == getRemindersByEvent(ui.id) IN
     ui' = [ui EXCEPT !.snap = found,
                      !.pc = IF found = <<>> THEN AfterDeletes(ui.op) ELSE "deleteNext"]
  /\ UNCHANGED <<events, reminders, uiFrame>>

\* for (const reminder of reminders) await db.delete('reminders', reminder.id)
DeleteNextReminder ==
  /\ ui.pc = "deleteNext"
  /\ reminders' = Remove(reminders, Head(ui.snap).id)
  /\ ui' = [ui EXCEPT !.snap = Tail(ui.snap),
                      !.pc = IF Tail(ui.snap) = <<>> THEN AfterDeletes(ui.op)
                             ELSE "deleteNext"]
  /\ UNCHANGED <<events, uiFrame>>

\* The start times (on Sunday, later today) and reminder offsets the form is
\* saved with.
FormTimes == {<<2, 0>>, <<9, 0>>}
FormOffsets == {<<10>>, <<10, 30>>}

\* handleSave on an existing event: await deleteRemindersByEvent(event.id) ...
SaveEditCall(e, st, mins) ==
  /\ ui.pc = "idle" /\ ui.ops < MaxOps /\ e \in DOMAIN events
  /\ ui' = [ui EXCEPT !.pc = "snap", !.op = "edit", !.id = e, !.ops = @ + 1,
                      !.base = ui.nextR - 1, !.made = {},
                      !.todo = [startTime |-> st, reminderMinutes |-> mins]]
  /\ UNCHANGED <<events, reminders, uiFrame>>

\* updateEvent: const existing = await db.get('events', id); null when absent,
\* and handleSave throws 'Failed to update event'.
UpdateEventGet ==
  /\ ui.pc = "updGet"
  /\ ui' = [ui EXCEPT !.pc = IF ui.id \in DOMAIN events THEN "updPut" ELSE "failed"]
  /\ UNCHANGED <<events, reminders, uiFrame>>

\* updateEvent: await db.put('events', { ...existing, ...updates, id })
UpdateEventPut ==
  /\ ui.pc = "updPut"
  /\ events' = Put(events, ui.id,
        [voiceReminderEnabled |-> TRUE, dayOfWeek |-> 0,
         startTime |-> ui.todo.startTime, reminderMinutes |-> ui.todo.reminderMinutes])
  /\ ui' = [ui EXCEPT !.pc = "addNext", !.made = {ui.id},
                      !.snap = ui.todo.reminderMinutes]
  /\ UNCHANGED <<reminders, uiFrame>>

\* handleSave without an event: savedEvent = await addEvent(eventData)
SaveNewCall(st, mins) ==
  /\ ui.pc = "idle" /\ ui.ops < MaxOps
  /\ events' = Put(events, Eid(ui.nextE),
        [voiceReminderEnabled |-> TRUE, dayOfWeek |-> 0,
         startTime |-> st, reminderMinutes |-> mins])
  /\ ui' = [ui EXCEPT !.pc = "addNext", !.op = "create", !.id = Eid(ui.nextE),
                      !.ops = @ + 1, !.nextE = @ + 1, !.base = ui.nextR - 1,
                      !.made = {Eid(ui.nextE)}, !.snap = mins,
                      !.todo = [startTime |-> st, reminderMinutes |-> mins]]
  /\ UNCHANGED <<reminders, uiFrame>>

\* for (const mins of reminderMinutes): calculateReminderTime(...), then
\* await addReminder({ eventId, scheduledTime, minutesBefore, triggered: false,
\* missed: false }); after the loop handleSave has succeeded.  The page was
\* opened on a Sunday at 00:00, so Date.now() is `clock`.
AddNextReminder ==
  /\ ui.pc = "addNext"
  /\ ui.id \in DOMAIN events
  /\ LET mins == Head(ui.snap)
         ev == events[ui.id]
     IN /\ reminders' = Put(reminders, Rid(ui.nextR),
             [id |-> Rid(ui.nextR), eventId |-> ui.id,
              scheduledTime |-> calculateReminderTime(ev.dayOfWeek, ev.startTime[1],
                                   ev.startTime[2], mins, clock),
              minutesBefore |-> mins, triggered |-> FALSE, missed |-> FALSE])
        /\ ui' = [ui EXCEPT !.snap = Tail(ui.snap), !.nextR = @ + 1,
                            !.pc = IF Tail(ui.snap) = <<>> THEN "done" ELSE "addNext"]
  /\ UNCHANGED <<events, uiFrame>>

\* handleImportClasses: await addEvent({ ..., reminderMinutes: [10, 30],
\* voiceReminderEnabled: true }) for each selected class (one here), nothing else.
ImportClasses(st) ==
  /\ ui.pc = "idle" /\ ui.ops < MaxOps
  /\ events' = Put(events, Eid(ui.nextE),
        [voiceReminderEnabled |-> TRUE, dayOfWeek |-> 0,
         startTime |-> st, reminderMinutes |-> <<10, 30>>])
  /\ ui' = [ui EXCEPT !.pc = "done", !.op = "import", !.id = Eid(ui.nextE),
                      !.ops = @ + 1, !.nextE = @ + 1, !.base = ui.nextR - 1,
                      !.made = {Eid(ui.nextE)}]
  /\ UNCHANGED <<reminders, uiFrame>>

\* The operation has returned (or thrown) and the user may start another.
UiReturn ==
  /\ ui.pc \in {"done", "failed"}
  /\ ui' = [ui EXCEPT !.pc = "idle"]
  /\ UNCHANGED <<events, reminders, uiFrame>>

StoreSteps ==
  \/ \E e \in EventIds : DeleteEventCall(e)
  \/ DeleteEventGet
  \/ DeleteEventDelete
  \/ RemindersSnapshot
  \/ DeleteNextReminder
  \/ \E e \in EventIds, st \in FormTimes, mins \in FormOffsets : SaveEditCall(e, st, mins)
  \/ UpdateEventGet
  \/ UpdateEventPut
  \/ \E st \in FormTimes, mins \in FormOffsets : SaveNewCall(st, mins)
  \/ AddNextReminder
  \/ \E st \in FormTimes : ImportClasses(st)
  \/ UiReturn

\* The poller's first invocation and its dispatches, without the passage of time.
PollSteps ==
  \/ Mount
  \/ \E i \in Slots :
       \/ QueryDone(i)
       \/ GetSettings(i)
       \/ GetEvent(i)
       \/ MarkGet(i)
       \/ MarkPut(i)

\* Event 1 (Sunday 00:10, offsets 10 and 30 minutes) with its two pending
\* reminders: the 10 minute one is due now, the other was due 20 minutes ago.
\* Notifications and voice reminders are off: a dispatch is getSettings,
\* getEvent, the interval and markReminderTriggered.
InitStore ==
  /\ calc = NoCalc
  /\ speech = NoSpeech
  /\ swDb = NoStores
  /\ Start((Eid(1) :> ClassEvent(FALSE, <<10, 30>>)),
           (Rid(1) :> Fresh(1, 1, 0)) @@
           (Rid(2) :> [Fresh(2, 1, 0 - 20 * 60 * 1000) EXCEPT !.minutesBefore = 30]),
           [alarmRetriggerInterval |-> 15, notificationsEnabled |-> FALSE,
            voiceRemindersEnabled |-> FALSE],
           TRUE)

NextStore == StoreSteps \/ PollSteps

SpecStore == InitStore /\ [][NextStore]_vars

\* ------------------------------------------------------- rejected awaits
\* An awaited call of triggerReminder rejects: getSettings or getEvent (a
\* storage request fails) or showPersistentNotification (the Notification
\* constructor throws).  Nothing inside checkReminders or triggerReminder
\* catches, so the invocation ends in runCheck's catch with the rest of its
\* batch untouched.
Throws(i) ==
  /\ polls[i].pc \in {"getSettings", "getEvent", "shown"}
  /\ polls' = SetFrame(i, IdlePoll)
  /\ UNCHANGED <<clock, reminders, storeVars, pollVars, dispatchCount, restVars>>

\* Two reminders of two events, both due now; notifications on, voice off.
InitFault ==
  /\ calc = NoCalc
  /\ speech = NoSpeech
  /\ swDb = NoStores
  /\ Start((Eid(1) :> ClassEvent(FALSE, <<10>>)) @@ (Eid(2) :> ClassEvent(FALSE, <<10>>)),
           (Rid(1) :> Fresh(1, 1, 0)) @@ (Rid(2) :> Fresh(2, 2, 0)),
           [alarmRetriggerInterval |-> 30, notificationsEnabled |-> TRUE,
            voiceRemindersEnabled |-> FALSE],
           TRUE)

\* The poller on its interval alone (no visibility changes).
NextFault ==
  \/ Mount
  \/ RegisterServiceWorker
  \/ IntervalTick
  \/ \E i \in Slots :
       \/ QueryDone(i)
       \/ GetSettings(i)
       \/ GetEvent(i)
       \/ NotificationShown(i)
       \/ MarkGet(i)
       \/ MarkPut(i)
       \/ Throws(i)
  \/ \E h \in DOMAIN fgTimers : FgTimerFire(h)
  \/ Advance(MaxFaultTime)

SpecFault == InitFault /\ [][NextFault]_vars

\* ------------------------------------------- worker: the reminder scan
\* The worker's checkReminders, one action per awaited request.  It reads
\* 'ClassPingDB', not the page's 'classping-db'.
swScanFrame == <<clock, events, reminders, settings, controller, mounted,
                 nextPollAt, polls, ALARM_REPEAT_INTERVAL, activeAlarms, fgTimers,
                 fgSpeaking, swListening, snoozes, msgs, dispatchCount, acked,
                 timeouts, calc, speech, ui>>

IdleSwPoll == [pc |-> "idle", now |-> 0, batch |-> <<>>, cur |-> NoRem]

\* The worker's getUpcomingReminders: index.getAll(bound(now - 60000,
\* now + 60000)) filtered by !r.triggered && !r.missed
swUpcomingReminders(now) ==
  ByScheduled({r \in {swDb.reminders[k] : k \in DOMAIN swDb.reminders} :
     /\ r.scheduledTime >= now - 60000 /\ r.scheduledTime <= now + 60000
     /\ ~r.triggered /\ ~r.missed})

RECURSIVE SwScan(_, _)
\* for (const reminder of reminders) if (reminder.scheduledTime <= now &&
\* !reminder.triggered) { const event = await getEvent(...) ... }
SwScan(p, rest) ==
  IF rest = <<>> THEN IdleSwPoll
  ELSE LET r == Head(rest) IN
       IF r.scheduledTime <= p.now /\ ~r.triggered
       THEN [p EXCEPT !.batch = Tail(rest), !.cur = r, !.pc = "getEvent"]
       ELSE SwScan(p, Tail(rest))

SetSwFrame(i, q) ==
  IF q.pc = "idle"
  THEN SubSeq(swPolls, 1, i - 1) \o SubSeq(swPolls, i + 1, Len(swPolls))
  ELSE [swPolls EXCEPT ![i] = q]

\* checkReminders() is called: by the activate handler, its setInterval,
\* periodicsync or a CHECK_REMINDERS message; nothing serialises the calls.
SwCheckReminders ==
  /\ Len(swPolls) < MaxInFlight
  /\ swPolls' = Append(swPolls, [IdleSwPoll EXCEPT !.pc = "query", !.now = clock])
  /\ UNCHANGED <<swDb, swGiven, swRejected, notifications, timerSeq, swTimers,
                 unacknowledgedReminders, swScanFrame>>

\* await getUpcomingReminders() settles; without the object store
\* db.transaction(['reminders']) throws and the call rejects.
SwQueryDone(i) ==
  /\ swPolls[i].pc = "query"
  /\ swPolls' = SetSwFrame(i, IF swDb.stores
                              THEN SwScan(swPolls[i], swUpcomingReminders(swPolls[i].now))
                              ELSE IdleSwPoll)
  /\ swRejected' = (swRejected \/ ~swDb.stores)
  /\ UNCHANGED <<swDb, swGiven, notifications, timerSeq, swTimers,
                 unacknowledgedReminders, swScanFrame>>

\* const event = await getEvent(reminder.eventId); if (event) startAlarmLoop(...)
\* and on to markReminderTriggered; without the event the loop just goes on.
SwGetEvent(i) ==
  /\ swPolls[i].pc = "getEvent"
  /\ LET p == swPolls[i] IN
     IF p.cur.eventId \in DOMAIN swDb.events
     THEN /\ startAlarmLoop(p.cur.id)
          /\ swPolls' = [swPolls EXCEPT ![i] = [p EXCEPT !.pc = "mark"]]
          /\ UNCHANGED swGiven
     ELSE /\ swPolls' = SetSwFrame(i, SwScan(p, p.batch))
          /\ swGiven' = swGiven \cup {p.cur.id}
          /\ UNCHANGED <<notifications, timerSeq, swTimers, unacknowledgedReminders>>
  /\ UNCHANGED <<swDb, swRejected, swScanFrame>>

\* await markReminderTriggered(reminder.id): store.get and store.put of
\* reminder.triggered = true in one readwrite transaction.
SwMark(i) ==
  /\ swPolls[i].pc = "mark"
  /\ LET p == swPolls[i] IN
     /\ swDb' = IF p.cur.id \in DOMAIN swDb.reminders
                THEN [swDb EXCEPT !.reminders[p.cur.id].triggered = TRUE]
                ELSE swDb
     /\ swPolls' = SetSwFrame(i, SwScan(p, p.batch))
     /\ swGiven' = swGiven \cup {p.cur.id}
  /\ UNCHANGED <<swRejected, notifications, timerSeq, swTimers,
                 unacknowledgedReminders, swScanFrame>>

\* A 'ClassPingDB' that has the stores the worker reads, filled with two due
\* reminders of two events, either of which may be gone.
InitWorker ==
  \E has1 \in BOOLEAN, has2 \in BOOLEAN, at2 \in {0, REMINDER_CHECK_MS} :
    /\ calc = NoCalc
    /\ speech = NoSpeech
    /\ swDb = [stores |-> TRUE,
               reminders |-> (Rid(1) :> Fresh(1, 1, 0)) @@ (Rid(2) :> Fresh(2, 2, at2)),
               events |-> [e \in {Eid(n) : n \in {x \in 1..2 : (x = 1 /\ has1) \/ (x = 2 /\ has2)}}
                             |-> ClassEvent(TRUE, <<10>>)]]
    /\ Start(<<>>, <<>>, NoSettings, TRUE)

\* The worker alone: its scans, its alarm loops and the user's answers.
NextWorker ==
  \/ SwCheckReminders
  \/ \E i \in DOMAIN swPolls :
       \/ SwQueryDone(i)
       \/ SwGetEvent(i)
       \/ SwMark(i)
  \/ DeliverAck
  \/ \E n \in notifications : NotificationClick(n, "ok", 0)

SpecWorker == InitWorker /\ [][NextWorker]_vars

\* ------------------------------------------------ one reminder, polled again
\* One reminder due now, its event present or gone, notifications on or off,
\* voice off; polls from the mount, the interval and visibility changes.
InitTwice ==
  \E has1 \in BOOLEAN, notify \in BOOLEAN :
    /\ calc = NoCalc
    /\ speech = NoSpeech
    /\ swDb = NoStores
    /\ Start(IF has1 THEN (Eid(1) :> ClassEvent(FALSE, <<10>>)) ELSE <<>>,
             (Rid(1) :> Fresh(1, 1, 0)),
             [alarmRetriggerInterval |-> 15, notificationsEnabled |-> notify,
              voiceRemindersEnabled |-> FALSE],
             TRUE)

NextTwice == PageSteps \/ Advance(MaxTime)

SpecTwice == InitTwice /\ [][NextTwice]_vars

\* ------------------------------------------- both contexts, one instant
\* The page's store and a 'ClassPingDB' with the stores the worker reads hold
\* the same two reminders: one due now, one due in 30 s (inside the query
\* window of a poll made now).  Both contexts poll; no time passes.
InitEarly ==
  \E notify \in BOOLEAN, has1 \in BOOLEAN :
    /\ calc = NoCalc
    /\ speech = NoSpeech
    /\ swDb = [stores |-> TRUE,
               reminders |-> (Rid(1) :> Fresh(1, 1, 0)) @@
                             (Rid(2) :> Fresh(2, 2, REMINDER_CHECK_MS)),
               events |-> IF has1 THEN (Eid(1) :> ClassEvent(FALSE, <<10>>)) @@
                                       (Eid(2) :> ClassEvent(FALSE, <<10>>))
                          ELSE (Eid(2) :> ClassEvent(FALSE, <<10>>))]
    /\ Start(swDb.events, swDb.reminders,
             [alarmRetriggerInterval |-> 15, notificationsEnabled |-> notify,
              voiceRemindersEnabled |-> FALSE],
             TRUE)

NextEarly ==
  \/ PollSteps
  \/ VisibilityChange
  \/ \E i \in Slots : NotificationShown(i)
  \/ SwCheckReminders
  \/ \E i \in DOMAIN swPolls :
       \/ SwQueryDone(i)
       \/ SwGetEvent(i)
       \/ SwMark(i)

SpecEarly == InitEarly /\ [][NextEarly]_vars

\* --------------------------------------- the worker beside the page's store
\* The page's store ('classping-db') as InitStore leaves it and as the form
\* goes on writing it; the worker scans its own 'ClassPingDB', which nothing
\* has given object stores.
NextShared ==
  \/ StoreSteps
  \/ SwCheckReminders
  \/ \E i \in DOMAIN swPolls : SwQueryDone(i)

SpecShared == InitStore /\ [][NextShared]_vars

\* ------------------------------------------ the store and a second poll
\* SpecStore with the page becoming visible again: a second invocation of
\* checkReminders runs beside the first one and the store operation.
NextRace == NextStore \/ VisibilityChange

SpecRace == InitStore /\ [][NextRace]_vars

\* ------------------------------------------- playAlarm and its utterance
\* One frame per call of playAlarm with voice reminders on: speakText ->
\* speakWithFallback, the utterance's events, the 15 s timeout and the tone.
speechFrame == <<events, reminders, settings, controller, mounted, nextPollAt,
                 polls, ALARM_REPEAT_INTERVAL, activeAlarms, fgTimers, fgSpeaking,
                 timerSeq, swListening, unacknowledgedReminders, swTimers,
                 snoozes, notifications, msgs, dispatchCount, acked, timeouts,
                 calc, ui, swStore>>

\* The call awaits the promise of speakWithFallback: the utterance is being
\* spoken, the timeout is pending.  settles, speech and tone are history.
NewAttempt == [pc |-> "speech", resolved |-> FALSE, settles |-> 0,
               utt |-> "speaking", timer |-> TRUE, start |-> 0,
               speech |-> "none", tone |-> FALSE]

\* A variant of the guard below that settles whatever `resolved` says.
SettleAgain(a, how) ==
  [a EXCEPT !.resolved = TRUE, !.settles = @ + 1, !.speech = how]
\* if (!resolved) { resolved = true; resolve() or reject(...) }
Settle(a, how) ==
  IF a.resolved THEN a
  ELSE [a EXCEPT !.resolved = TRUE, !.settles = @ + 1, !.speech = how]

\* window.speechSynthesis.cancel(): the utterance being spoken is cut off and
\* gets an error event.
Cancelled(as) ==
  [n \in DOMAIN as |-> IF as[n].utt = "speaking"
                       THEN [as[n] EXCEPT !.utt = "cancelled"] ELSE as[n]]

\* await playReminderSound({ volume, urgency: 'high' }), recorded in `tone`:
\* without an AudioContext the generator can play nothing and resolves at
\* once, else it plays the tones and resolves by setTimeout(resolve, ...)
Fallback(a) ==
  IF speech.audio THEN [a EXCEPT !.pc = "tone", !.tone = TRUE]
  ELSE [a EXCEPT !.pc = "returned", !.tone = TRUE]

\* playAlarm(): await speakText(...); with 'speechSynthesis' in window the
\* promise's executor runs (cancel, timeout, speak), else the fallback.
PlayAlarm ==
  /\ Len(speech.attempts) < MaxAlarms
  /\ speech' = [speech EXCEPT !.attempts =
       IF speech.supported
       THEN Append(Cancelled(@), [NewAttempt EXCEPT !.start = clock])
       ELSE Append(@, Fallback([NewAttempt EXCEPT !.start = clock, !.utt = "none",
                                  !.timer = FALSE, !.speech = "unavailable"]))]
  /\ UNCHANGED <<clock, speechFrame>>

\* utterance.onend
UtteranceEnd(n) ==
  /\ speech.attempts[n].utt = "speaking"
  /\ LET a == speech.attempts[n]
         b == Settle([a EXCEPT !.utt = "over"], "end")
     IN speech' = [speech EXCEPT !.attempts[n] =
                     IF a.resolved THEN b ELSE [b EXCEPT !.pc = "returned"]]
  /\ UNCHANGED <<clock, speechFrame>>

\* utterance.onerror; the rejection is caught and the fallback follows.
UtteranceError(n) ==
  /\ speech.attempts[n].utt \in {"speaking", "cancelled"}
  /\ LET a == speech.attempts[n]
         b == Settle([a EXCEPT !.utt = "over"], "error")
     IN speech' = [speech EXCEPT !.attempts[n] =
                     IF a.resolved THEN b ELSE Fallback(b)]
  /\ UNCHANGED <<clock, speechFrame>>

\* The callback of setTimeout(..., 15000)
SpeechTimeout(n) ==
  /\ speech.attempts[n].timer
  /\ speech.attempts[n].start + SPEECH_TIMEOUT = clock
  /\ LET a == speech.attempts[n]
         off == [speech.attempts EXCEPT ![n].timer = FALSE]
     IN speech' = [speech EXCEPT !.attempts =
          IF a.resolved THEN off
          ELSE [Cancelled(off) EXCEPT ![n] = Fallback(Settle(@, "timeout"))]]
  /\ UNCHANGED <<clock, speechFrame>>

\* The tone sequence (1.55 s) is over: setTimeout(resolve, totalDuration * 1000)
ToneDone(n) ==
  /\ speech.attempts[n].pc = "tone"
  /\ speech' = [speech EXCEPT !.attempts[n].pc = "returned"]
  /\ UNCHANGED <<clock, speechFrame>>

\* Time passes once the events of this instant are delivered.  An utterance
\* may go on being spoken for as long as it likes.
SpeechTick ==
  /\ clock + Step <= MaxSpeechTime
  /\ \A n \in DOMAIN speech.attempts :
       LET a == speech.attempts[n] IN
       /\ a.pc # "tone"
       /\ a.utt # "cancelled"
       /\ ~(a.timer /\ a.start + SPEECH_TIMEOUT = clock)
  /\ clock' = clock + Step
  /\ UNCHANGED <<speech, speechFrame>>

\* Browsers with and without speech synthesis, with and without Web Audio.
InitSpeech ==
  /\ \E sup \in BOOLEAN, aud \in BOOLEAN :
       speech = [supported |-> sup, audio |-> aud, attempts |-> <<>>]
  /\ calc = NoCalc
  /\ swDb = NoStores
  /\ Start(<<>>, <<>>, NoSettings, TRUE)

NextSpeech ==
  \/ PlayAlarm
  \/ \E n \in DOMAIN speech.attempts :
       \/ UtteranceEnd(n)
       \/ UtteranceError(n)
       \/ SpeechTimeout(n)
       \/ ToneDone(n)
  \/ SpeechTick

SpecSpeech == InitSpeech /\ [][NextSpeech]_vars

\* ------------------------------------------------- the poller kept running
\* Two pending reminders of two existing events, the second due now or at the
\* next poll; the page stays open and visible, so checkReminders runs from
\* the mount and from the interval.
InitLive ==
  \E at2 \in {0, REMINDER_CHECK_MS}, notify \in BOOLEAN, voice \in BOOLEAN :
    /\ calc = NoCalc
    /\ speech = NoSpeech
    /\ swDb = NoStores
    /\ Start((Eid(1) :> ClassEvent(TRUE, <<10>>)) @@ (Eid(2) :> ClassEvent(TRUE, <<10>>)),
             (Rid(1) :> Fresh(1, 1, 0)) @@ (Rid(2) :> Fresh(2, 2, at2)),
             [alarmRetriggerInterval |-> 15, notificationsEnabled |-> notify,
              voiceRemindersEnabled |-> voice],
             TRUE)

\* The awaited request of the i-th invocation in flight returns.
FrameStep(i) ==
  /\ i \in Slots
  /\ \/ QueryDone(i)
     \/ GetSettings(i)
     \/ GetEvent(i)
     \/ SpeechSettles(i)
     \/ NotificationShown(i)
     \/ MarkGet(i)
     \/ MarkPut(i)

NextLive ==
  \/ Mount
  \/ RegisterServiceWorker
  \/ IntervalTick
  \/ \E i \in 1..MaxInFlight : FrameStep(i)
  \/ \E h \in DOMAIN fgTimers : FgTimerFire(h)
  \/ \E s \in fgSpeaking : TickSpeechSettles(s)
  \/ Advance(MaxTime)

\* The effect runs, timers fire, time passes, and every storage, speech and
\* notification call that is awaited returns.
LiveFair ==
  /\ WF_vars(Mount)
  /\ WF_vars(RegisterServiceWorker)
  /\ WF_vars(IntervalTick)
  /\ \A i \in 1..MaxInFlight : WF_vars(FrameStep(i))
  /\ WF_vars(\E h \in DOMAIN fgTimers : FgTimerFire(h))
  /\ WF_vars(\E s \in fgSpeaking : TickSpeechSettles(s))
  /\ WF_vars(Advance(MaxTime))

SpecLive == InitLive /\ [][NextLive]_vars /\ LiveFair

\* ================================================================ properties

\* C1 (checked under Spec): the dispatcher is invoked at most once for any
\* reminder record.
DispatchedAtMostOnce == \A k \in DOMAIN dispatchCount : dispatchCount[k] <= 1

\* The start of the latest poll the interval (or the mount) has begun.
LastPoll == nextPollAt - REMINDER_CHECK_MS

\* C2 (checked under Spec): once the polls begun so far have returned, every
\* reminder that was untriggered and more than the grace period past its
\* scheduled time when the latest of them ran, and was never dispatched,
\* is persisted triggered and missed.
StaleMarkedMissed ==
  (mounted /\ polls = <<>>) =>
    \A k \in DOMAIN reminders :
      (LastPoll - reminders[k].scheduledTime > GRACE_PERIOD /\ dispatchCount[k] = 0)
        => (reminders[k].triggered /\ reminders[k].missed)

\* C3 (checked under SpecAlarm): when the answer "Got it" to the notification
\* of an alarming reminder reaches the page, the message names that reminder
\* and the reminder has a session in neither context any more.
GotItTearsDownBoth ==
  [][(msgs # <<>> /\ msgs' = Tail(msgs)
        /\ Head(msgs).action = "ok" /\ Head(msgs).alarming)
      => /\ Head(msgs).reminderId = Head(msgs).of
         /\ Head(msgs).of \notin DOMAIN activeAlarms'
         /\ Head(msgs).of \notin DOMAIN unacknowledgedReminders']_vars

\* C4 (checked under SpecAlarm): an acknowledgment (by the user or by the
\* ceiling) removes the session from its map in that very step, an
\* acknowledged session never comes back, and no timer of an acknowledged
\* session renders again at any later tick.
AckedStaysSilent ==
  [][/\ \A x \in acked' :
          /\ x[1] = "page" => x[2] \notin DOMAIN activeAlarms'
          /\ x[1] = "worker" => x[2] \notin DOMAIN unacknowledgedReminders'
     /\ \A h \in DOMAIN fgTimers \cap DOMAIN fgTimers' :
          <<"page", fgTimers[h].rid>> \in acked
            => fgTimers'[h].renders = fgTimers[h].renders
     /\ \A h \in DOMAIN swTimers \cap DOMAIN swTimers' :
          <<"worker", swTimers[h].rid>> \in acked
            => swTimers'[h].renders = swTimers[h].renders]_vars

\* C4 witness: a page session ended by the ceiling and a worker session ended
\* by the user, and a cleared-too-late timer of the page session has ticked
\* once more since.
AckedBothAndTickedOn ==
  /\ \E x \in acked : x[1] = "worker"
  /\ \E t \in timeouts :
       /\ t.handle \in DOMAIN fgTimers
       /\ <<"page", fgTimers[t.handle].rid>> \in acked
       /\ fgTimers[t.handle].next >
            fgTimers[t.handle].start + MAX_ALARM_DURATION + 2 * t.interval

\* C5 (checked under SpecLong): a session of either context is gone by the
\* first tick after it has lasted longer than the 5 minute ceiling.
SessionsEndAtCeiling ==
  /\ \A id \in DOMAIN activeAlarms :
       LET t == fgTimers[activeAlarms[id]]
       IN clock - t.start <= MAX_ALARM_DURATION + t.interval
  /\ \A id \in DOMAIN unacknowledgedReminders :
       LET t == swTimers[unacknowledgedReminders[id]]
       IN clock - t.start <= MAX_ALARM_DURATION + ALARM_RE_TRIGGER_INTERVAL

\* C6 (checked under SpecAlarm): with ceiling C and re-trigger interval I
\* (I divides C, timers fire exactly at I, 2I, ...), a foreground session
\* nobody acknowledges has rendered exactly C / I times when the ceiling ends
\* it, and no timer ever renders more often than that.
RendersUpToCeiling ==
  /\ \A t \in timeouts : t.renders = MAX_ALARM_DURATION \div t.interval
  /\ \A h \in DOMAIN fgTimers :
       fgTimers[h].renders <= MAX_ALARM_DURATION \div fgTimers[h].interval

\* C6 witness: a session at the 10 s interval timed out after 30 re-renders.
TimedOutAfterThirty ==
  \E t \in timeouts : t.interval = 10000 /\ t.renders = 30

\* C7 (checked under Spec): every live escalation timer is the one its
\* context's session map holds for its reminder, so a reminder never has two.
OneTimerPerReminder ==
  /\ \A h \in DOMAIN fgTimers :
       /\ fgTimers[h].rid \in DOMAIN activeAlarms
       /\ activeAlarms[fgTimers[h].rid] = h
  /\ \A h \in DOMAIN swTimers :
       /\ swTimers[h].rid \in DOMAIN unacknowledgedReminders
       /\ unacknowledgedReminders[swTimers[h].rid] = h

\* C8 (checked under SpecAlarm): while the snooze of an alarming reminder is
\* pending and its message has been delivered, that reminder's escalation is
\* stopped in both contexts.
SnoozeStopsEscalation ==
  \A s \in snoozes : (s.alarming /\ msgs = <<>>) => ~Alarming(s.of)

\* The weekly occurrence a computed reminder time stands for.
Occurrence == calc.result + calc.minutesBefore * 60 * 1000

\* C9 (checked under SpecCalc): the result is the offset before the next
\* occurrence of (day of week, start time) strictly after now, i.e. within
\* the coming 7 days; Monday 09:00 less 10 minutes asked on Monday 08:50
\* gives that same Monday 08:50.
NextOccurrenceLessOffset ==
  calc.phase = "out" =>
    /\ getDay(Occurrence) = calc.dayOfWeek
    /\ Occurrence % DAY = calc.startTime[1] * 60 * 60 * 1000 + calc.startTime[2] * 60 * 1000
    /\ calc.now < Occurrence
    /\ Occurrence <= calc.now + 7 * DAY
    /\ (calc.dayOfWeek = 1 /\ calc.startTime = <<9, 0>> /\ calc.minutesBefore = 10
          /\ calc.now = At(1, 8, 50, 0)) => calc.result = At(1, 8, 50, 0)

\* C9 witness: the Monday 08:50 case has been computed.
MondayAtTenToNine ==
  /\ calc.phase = "out" /\ calc.dayOfWeek = 1 /\ calc.startTime = <<9, 0>>
  /\ calc.minutesBefore = 10 /\ calc.now = At(1, 8, 50, 0)
  /\ calc.result = calc.now

\* The inputs of C10: Monday 09:00, 10 minutes before, asked on Monday 08:51.
MondayAtNineToNine ==
  /\ calc.phase = "out" /\ calc.dayOfWeek = 1 /\ calc.startTime = <<9, 0>>
  /\ calc.minutesBefore = 10 /\ calc.now = At(1, 8, 51, 0)

\* C10 as stated (checked under SpecCalc): asked on Monday 08:51 the result
\* is Monday 08:50 of the next week.
PastReminderRollsOver == MondayAtNineToNine => calc.result = At(8, 8, 50, 0)

\* C10 (checked under SpecCalc): asked on Monday 08:51, with the class not yet
\* started, the result is Monday 08:50 of the current week, one minute in the
\* past; the rollover looks at the event's start, not at the reminder instant.
PastReminderStaysThisWeek ==
  MondayAtNineToNine =>
    /\ calc.result = At(1, 8, 50, 0)
    /\ calc.result = calc.now - 60 * 1000

\* C10 witness: the Monday 08:51 case has been computed, a minute late.
MondayLateByAMinute == MondayAtNineToNine /\ calc.result < calc.now

\* The reminders a checkReminders call starting now would read.
SeenNow ==
  LET due == getUpcomingReminders(clock - checkWindow, clock + checkWindow)
  IN {due[j].id : j \in DOMAIN due}

\* The invocations in flight that hold reminder k, current or still to come.
Holding(k) ==
  {i \in Slots : \/ polls[i].cur.id = k
                 \/ \E j \in DOMAIN polls[i].batch : polls[i].batch[j].id = k}

\* C14 (checked under SpecTwice): once every invocation that dispatched a reminder
\* has returned, a call of the poller starting now does not read that
\* reminder, so it cannot dispatch it again.
SecondCallGated ==
  \A k \in DOMAIN reminders :
    (dispatchCount[k] >= 1 /\ Holding(k) = {}) => k \notin SeenNow

\* C14 witness: reminder 1 was dispatched once, the first call has returned,
\* the next poll has run as well while the reminder was still in its window.
SecondPollFoundNothing ==
  /\ mounted /\ polls = <<>> /\ nextPollAt > REMINDER_CHECK_MS
  /\ dispatchCount[Rid(1)] = 1 /\ reminders[Rid(1)].triggered
  /\ clock - reminders[Rid(1)].scheduledTime <= checkWindow

\* C17 (checked under Spec): whenever an alert output of a reminder has begun
\* (its utterance is playing or its notification is shown), the reminder is
\* already persisted as triggered.
PersistedBeforeAlert ==
  /\ \A n \in notifications :
       (n.origin = "page" /\ n.tag \in DOMAIN reminders) => reminders[n.tag].triggered
  /\ \A i \in Slots :
       (polls[i].pc \in {"speaking", "shown"} /\ polls[i].cur.id \in DOMAIN reminders)
         => reminders[polls[i].cur.id].triggered

\* C18 (checked under Spec): at most one invocation of checkReminders is in
\* flight in the page at any time.
PollsSequential == Len(polls) <= 1

\* C20 (checked under SpecAlarm): no interval is live for a reminder whose
\* session has left its context's map.
NoTimerOutlivesSession ==
  /\ \A h \in DOMAIN fgTimers : fgTimers[h].rid \in DOMAIN activeAlarms
  /\ \A h \in DOMAIN swTimers : swTimers[h].rid \in DOMAIN unacknowledgedReminders

\* The stored reminders of an event.
Of(e) == {reminders[k] : k \in {x \in DOMAIN reminders : reminders[x].eventId = e}}

\* C11 (checked under SpecStore): when deleteEvent(id) has completed for an
\* event with pending reminders, the event is absent and getRemindersByEvent(id)
\* is empty.
DeletedLeavesNothing ==
  (ui.op = "deleteEvent" /\ ui.pc = "done") =>
    /\ ui.id \notin DOMAIN events
    /\ getRemindersByEvent(ui.id) = <<>>

\* C12 (checked under SpecStore): when the save of an edited event has
\* succeeded, its reminders are exactly one per saved offset, all created by
\* this save and all triggered=false, missed=false.
EditReplacesAll ==
  (ui.op = "edit" /\ ui.pc = "done") =>
    LET offs == ui.todo.reminderMinutes IN
    /\ \A r \in Of(ui.id) : ~r.triggered /\ ~r.missed /\ r.id[2] > ui.base
    /\ \A j \in DOMAIN offs :
         Cardinality({r \in Of(ui.id) : r.minutesBefore = offs[j]}) = 1
    /\ Cardinality(Of(ui.id)) = Len(offs)

\* C13 (checked under SpecStore): when an operation that added an event to the
\* store (the form's save of a new event, the timetable import) has completed,
\* the event has one reminder per offset of its reminderMinutes.
CreationSchedulesReminders ==
  (ui.pc = "done" /\ ui.op \in {"create", "import"}) =>
    \A e \in ui.made \cap DOMAIN events :
      \A j \in DOMAIN events[e].reminderMinutes :
        Cardinality({r \in Of(e) : r.minutesBefore = events[e].reminderMinutes[j]}) = 1

\* C15 (checked under SpecFault): an invocation of checkReminders ends only
\* when nothing of its batch is left to process, whatever was thrown while it
\* processed one reminder.
BatchSurvivesThrow ==
  [][\A i \in Slots :
       polls' = SetFrame(i, IdlePoll) => Scan(polls[i], polls[i].batch) = IdlePoll]_vars

\* C16 (checked under SpecFault): a reminder that is still triggered=false
\* when no invocation is in flight is still inside the query window of the
\* polls to come, so it is not left untriggered for good.
NeverStranded ==
  \A k \in DOMAIN reminders :
    (~reminders[k].triggered /\ polls = <<>>)
      => clock - reminders[k].scheduledTime <= checkWindow

DeletedStaysDeleted ==
  (/\ ui.op \in {"deleteEvent", "edit"}
   /\ ui.pc \in {"updGet", "updPut", "addNext", "done"}
   /\ polls = <<>>)
    => \A r \in Of(ui.id) :
         r.id[2] > (IF ui.op = "edit" THEN ui.base ELSE ui.nextR - 1)

\* C22 (checked under SpecStore): every stored reminder, in the page's store
\* and in the worker's, that is not triggered is not missed either.
MissedOnlyIfTriggered ==
  /\ \A k \in DOMAIN reminders : ~reminders[k].triggered => ~reminders[k].missed
  /\ \A k \in DOMAIN swDb.reminders :
       ~swDb.reminders[k].triggered => ~swDb.reminders[k].missed

\* A dispatch that found its event deleted has persisted missed = true while a
\* reminder that the form created is still pending.
MissedWrittenBesidePending ==
  /\ \E k \in DOMAIN reminders :
       dispatchCount[k] >= 1 /\ reminders[k].triggered /\ reminders[k].missed
  /\ \E k \in DOMAIN reminders : ~reminders[k].triggered /\ ~reminders[k].missed

\* C23 (checked under Spec): no step takes a stored reminder from
\* triggered = true to triggered = false, and a put of markReminderTriggered
\* lands on a record that is not yet triggered: the write that sets the field
\* happens once per reminder.
TriggeredSetOnce ==
  [][/\ \A k \in DOMAIN reminders \cap DOMAIN reminders' :
          reminders[k].triggered => reminders'[k].triggered
     /\ \A i \in Slots :
          (/\ polls[i].pc = "markPut" /\ polls[i].rec # NoRem
           /\ polls[i].rec.id \in DOMAIN reminders
           /\ polls' = SetFrame(i, Scan(polls[i], polls[i].batch)))
            => ~reminders[polls[i].rec.id].triggered]_vars

\* C25 (checked under SpecAlarm): dismissing a notification without answering
\* it leaves every escalation session and its timer as they were, and each
\* rendering of a session's timer, in the worker and on the page (with
\* notifications enabled), puts the session's notification on display again.
DismissedIsShownAgain ==
  [][/\ (notifications' \subseteq notifications /\ notifications' # notifications
           /\ msgs' = msgs)
          => /\ activeAlarms' = activeAlarms /\ fgTimers' = fgTimers
             /\ unacknowledgedReminders' = unacknowledgedReminders
             /\ swTimers' = swTimers
     /\ \A h \in DOMAIN swTimers \cap DOMAIN swTimers' :
          swTimers'[h].renders > swTimers[h].renders
            => SwNotification(swTimers[h].rid) \in notifications'
     /\ \A h \in DOMAIN fgTimers \cap DOMAIN fgTimers' :
          (fgTimers'[h].renders > fgTimers[h].renders
             /\ fgTimers[h].notify /\ ~fgTimers[h].speak)
            => FgNotification(fgTimers[h].rid) \in notifications']_vars

\* A worker session that has rendered again at least once is still running
\* while its notification is off display: the user dismissed it.
DismissedWhileAlarming ==
  \E id \in DOMAIN unacknowledgedReminders :
    /\ unacknowledgedReminders[id] \in DOMAIN swTimers
    /\ swTimers[unacknowledgedReminders[id]].renders >= 1
    /\ SwNotification(id) \notin notifications

\* C26 (checked under SpecAlarm): every escalation timer, the page's and the
\* worker's, runs at the alarmRetriggerInterval of the stored settings: its
\* next rendering is due one configured interval after the last one.
RendersAtConfiguredInterval ==
  /\ \A h \in DOMAIN fgTimers : fgTimers[h].interval = RetriggerMs(settings)
  /\ \A h \in DOMAIN swTimers :
       swTimers[h].next - swTimers[h].start
         = (swTimers[h].renders + 1) * RetriggerMs(settings)

\* C27 (checked under SpecEarly): a reminder whose scheduledTime is still
\* ahead is left as it was by the polls of both contexts: not handed to a
\* dispatch, not marked, without notification and without session.
NotBeforeItsTime ==
  /\ \A k \in DOMAIN reminders :
       reminders[k].scheduledTime > clock
         => /\ ~reminders[k].triggered /\ ~reminders[k].missed
            /\ dispatchCount[k] = 0
            /\ \A i \in Slots : polls[i].cur.id # k
            /\ k \notin DOMAIN activeAlarms
            /\ \A n \in notifications : n.tag # k
  /\ \A k \in DOMAIN swDb.reminders :
       swDb.reminders[k].scheduledTime > clock
         => /\ ~swDb.reminders[k].triggered
            /\ k \notin swGiven
            /\ k \notin DOMAIN unacknowledgedReminders
            /\ \A i \in DOMAIN swPolls : swPolls[i].cur.id # k

\* Both contexts have polled with the later reminder inside their window and
\* have returned: the due reminder is marked in both stores, the later one is
\* pending in both.
BothPolledAndReturned ==
  /\ polls = <<>> /\ swPolls = <<>>
  /\ dispatchCount[Rid(1)] >= 1 /\ Rid(1) \in swGiven
  /\ reminders[Rid(1)].triggered /\ swDb.reminders[Rid(1)].triggered
  /\ ~reminders[Rid(2)].triggered /\ ~swDb.reminders[Rid(2)].triggered

\* C21 (checked under SpecShared): when the query of a worker scan settles,
\* every untriggered reminder in the page's store that is due at the scan's
\* `now` is among the reminders the scan goes through.
WorkerReadsPageStore ==
  [][\A i \in DOMAIN swPolls :
       (/\ swPolls[i].pc = "query"
        /\ swPolls' = SetSwFrame(i, IF swDb.stores
                                    THEN SwScan(swPolls[i], swUpcomingReminders(swPolls[i].now))
                                    ELSE IdleSwPoll))
         => \A k \in DOMAIN reminders :
              (/\ ~reminders[k].triggered
               /\ reminders[k].scheduledTime <= swPolls[i].now
               /\ reminders[k].scheduledTime >= swPolls[i].now - checkWindow)
                => /\ i \in DOMAIN swPolls'
                   /\ \/ swPolls'[i].cur.id = k
                      \/ \E j \in DOMAIN swPolls'[i].batch : swPolls'[i].batch[j].id = k]_vars

\* C30 (checked under SpecRace): no step takes a stored reminder from
\* missed = true to missed = false.
MissedStaysMissed ==
  [][\A k \in DOMAIN reminders \cap DOMAIN reminders' :
       reminders[k].missed => reminders'[k].missed]_vars

ReachedIsDispatched ==
  \A k \in {Rid(1), Rid(2)} :
    (/\ k \in DOMAIN reminders /\ ~reminders[k].triggered
     /\ reminders[k].eventId \in DOMAIN events
     /\ reminders[k].scheduledTime <= clock)
      ~> (/\ k \in DOMAIN reminders
          /\ reminders[k].triggered /\ ~reminders[k].missed
          /\ dispatchCount[k] >= 1)

\* The reminder that came due at the second poll has been dispatched once and
\* persisted, as the one due at the mount has.
DueLaterDispatched ==
  /\ clock >= REMINDER_CHECK_MS
  /\ reminders[Rid(2)].scheduledTime = REMINDER_CHECK_MS
  /\ reminders[Rid(2)].triggered /\ ~reminders[Rid(2)].missed
  /\ dispatchCount[Rid(2)] = 1
  /\ reminders[Rid(1)].triggered /\ ~reminders[Rid(1)].missed

====
